---- MODULE Spec2Model ----
(***************************************************************************)
(* ZPDES (src/zpdes.py): a hierarchical multi-armed bandit over a graph of *)
(* Groups / Params / Values with a staged "zone of proximal development".  *)
(*                                                                         *)
(* Numbers.  Scores are integers.  Thresholds (lambdaZPD, lambdaA) and     *)
(* success rates are exact rationals [num, den].  beta and eta are         *)
(* integers and a weight is held as WUnit times the program's weight, so   *)
(* that every reward (a difference of two means) is an exact integer.      *)
(* gamma and softmax_factor only shape the probabilities of a draw, which  *)
(* are all positive over the candidates (0 <= gamma <= 1, no floating      *)
(* point underflow); a draw is modelled as a choice among the candidates.  *)
(***************************************************************************)
EXTENDS Integers, Sequences, FiniteSets, TLC

VARIABLES
    zpd_timestamp,  \* ActivitySpace.zpd_timestamp
    active,         \* Value.active, per value
    weight,         \* Value.weight, per value, in units of 1/WUnit
    scores,         \* Value.scores, per value
    pending,        \* activities returned by genActivity and not yet given to update
    cfg,            \* the coefficients given to ZPDES.__init__
    env,            \* the caller: the scores it reports and how many updates it makes
    nUpdates,       \* number of update calls so far
    retired,        \* the values a deactivation rule has cleared so far
    last            \* record of the last update call (inputs and intermediate values)

vars == <<zpd_timestamp, active, weight, scores, pending, cfg, env, nUpdates, retired, last>>

-----------------------------------------------------------------------------
(* Bounds of the model *)

\* number of update calls in the scenarios with free scores
MaxUpdates == 3
\* number of update calls in the scenarios where every score is 1
MaxCycles == 7
\* the largest score reported in the scenario with scores 0..MaxScore
MaxScore == 2

-----------------------------------------------------------------------------
(* The activity space built by init_activity_space *)

None == "None"

Value(label, code, next, act, activation) ==
    [label |-> label, code |-> code, next |-> next, active |-> act,
     weight |-> 0, activation |-> activation]

\* ActivitySpace.add_values: the values of one call, with their param and group set
add_values(group_label, param_label, values) ==
    [i \in 1..Len(values) |->
        [group |-> group_label, param |-> param_label, label |-> values[i].label,
         code |-> values[i].code, next |-> values[i].next, active |-> values[i].active,
         weight |-> values[i].weight, activation |-> values[i].activation]]

\* every value of the graph, in registration order
init_activity_space ==
    add_values("Type", "Type",
        << Value("flexibility", "F", "Flexibility Motion", TRUE, 1),
           Value("quality", "Q", "Quality Movement Level", FALSE, 2) >>)
    \o add_values("Flexibility Motion", "Motion",
        << Value("extension", "E", "Flexibility Extension", TRUE, 1),
           Value("lateroflexion", "LF", "Flexibility Lateroflexion", TRUE, 1),
           Value("rotation", "R", "Flexibility Level", TRUE, 1) >>)
    \o add_values("Flexibility Extension", "Movement",
        << Value("peek-a-boo", "PB", "Flexibility Level", TRUE, 1),
           Value("back bending", "BB", "Flexibility Level", TRUE, 1) >>)
    \o add_values("Flexibility Lateroflexion", "Position",
        << Value("seated", "S", "Flexibility Level", TRUE, 1),
           Value("upright", "U", "Flexibility Level", TRUE, 1) >>)
    \o add_values("Flexibility Level", "Level",
        << Value("level 1", "1", None, TRUE, 1),
           Value("level 2", "2", None, FALSE, 3),
           Value("level 3", "3", None, FALSE, 4) >>)
    \o add_values("Quality Movement Level", "Level",
        << Value("movement level 1", "B", None, FALSE, 2),
           Value("movement level 2", "", "Quality Movement 2", FALSE, 3),
           Value("movement level 3", "FUR", "Quality Movement 3", FALSE, 5) >>)
    \o add_values("Quality Movement 2", "Movement",
        << Value("seated balance rotations", "R", None, FALSE, 3),
           Value("seated balance foot up", "FU", None, FALSE, 3),
           Value("seated balance lateral movements", "LM", None, FALSE, 3),
           Value("seated balance torso rotations", "TR", None, FALSE, 3) >>)
    \o add_values("Quality Movement 2", "Level",
        << Value("level 1", "1", None, FALSE, 3),
           Value("level 2", "2", None, FALSE, 4),
           Value("level 3", "3", None, FALSE, 5) >>)
    \o add_values("Quality Movement 3", "Level",
        << Value("level 1", "1", None, FALSE, 5),
           Value("level 2", "2", None, FALSE, 6),
           Value("level 3", "3", None, FALSE, 7) >>)

\* a value is named by its place in the registration order
A_S == init_activity_space
Values == 1..Len(A_S)

RECURSIVE FirstSeen(_, _, _)
\* the distinct elements of f[1..n], in the order they first appear
FirstSeen(f, n, acc) ==
    IF n = 0 THEN acc
    ELSE LET rest == FirstSeen(f, n - 1, acc)
         IN  IF \E k \in 1..Len(rest) : rest[k] = f[n] THEN rest ELSE Append(rest, f[n])

\* ActivitySpace.groups: the groups in first-registration order
groups == FirstSeen([i \in Values |-> A_S[i].group], Len(A_S), <<>>)

\* the values of a group, in registration order
GroupValues(g) == SelectSeq([i \in Values |-> i], LAMBDA i : A_S[i].group = g)

\* Group.params_dict of every group: its param labels in first-registration order
params_dict ==
    [g \in {A_S[i].group : i \in Values} |->
        LET vs == GroupValues(g)
        IN  FirstSeen([k \in 1..Len(vs) |-> A_S[vs[k]].param], Len(vs), <<>>)]

\* Group.params: the params of a group in first-registration order
params(g) == params_dict[g]

\* Param.values: the values of a param in registration order
values(g, p) ==
    SelectSeq([i \in Values |-> i], LAMBDA i : A_S[i].group = g /\ A_S[i].param = p)

\* groups_dict[g].params_dict[p].values_dict[l]
values_dict(g, p, l) ==
    CHOOSE i \in Values : A_S[i].group = g /\ A_S[i].param = p /\ A_S[i].label = l

-----------------------------------------------------------------------------
(* Rationals [num, den] with den > 0, for success rates and thresholds *)

Rat(n, d) == [num |-> n, den |-> d]
Less(a, b) == a.num * b.den < b.num * a.den

RECURSIVE Sum(_)
Sum(s) == IF s = <<>> THEN 0 ELSE Head(s) + Sum(Tail(s))

\* s[-k:] of Python for 0 < k
LastK(s, k) == IF Len(s) <= k THEN s ELSE SubSeq(s, Len(s) - k + 1, Len(s))

RECURSIVE Fact(_)
Fact(n) == IF n <= 1 THEN 1 ELSE n * Fact(n - 1)

CeilHalf(n) == (n + 1) \div 2
FloorHalf(n) == n \div 2

-----------------------------------------------------------------------------
(* The engines and callers the model runs *)

\* the coefficients of ZPDES.__init__ (gamma and softmax_factor: see the head)
Coefficients(d, lambdaZPD, lambdaA, beta, eta) ==
    [d |-> d, lambdaZPD |-> lambdaZPD, lambdaA |-> lambdaA, beta |-> beta, eta |-> eta]

\* a caller: the scores it may report at each of its updates
Caller(c, script) == [cfg |-> c, scores |-> script]

\* free scores, few updates: an engine that advances on every update and retires
\* on any positive success rate, with scores 0 and 1, and one that asks for a mean
\* of 1/2 and doubles its weights, with scores 0..MaxScore
FreeScenarios ==
    { Caller(Coefficients(2, Rat(0, 1), Rat(0, 1), 1, 1), [n \in 1..MaxUpdates |-> {0, 1}]),
      Caller(Coefficients(3, Rat(1, 2), Rat(1, 2), 2, 1), [n \in 1..MaxUpdates |-> 0..MaxScore]) }

\* every score is 1: lambdaZPD at 0 (the stage advances on every update; lambdaA
\* is negative there, so that a rule also clears a value that has no score),
\* below, at and above the success rate 1
OnesScenarios ==
    { Caller(Coefficients(2, Rat(0, 1), Rat(-1, 2), 1, 1), [n \in 1..MaxUpdates + 1 |-> {1}]) }
    \cup
    { Caller(c, [n \in 1..MaxCycles |-> {1}]) :
        c \in { Coefficients(4, Rat(1, 2), Rat(1, 2), 1, 2),
                Coefficients(2, Rat(1, 1), Rat(1, 2), 1, 1),
                Coefficients(2, Rat(2, 1), Rat(1, 2), 1, 1) } }

\* a learner who scores 1 six times and 2 from then on, with both thresholds at 1:
\* a success rate of 1 lets the stage advance and does not retire
ImprovingScenarios ==
    { Caller(Coefficients(3, Rat(1, 1), Rat(1, 1), 1, 1),
             [n \in 1..MaxCycles |-> IF n <= 6 THEN {1} ELSE {2}]) }

Scenarios == FreeScenarios \cup OnesScenarios \cup ImprovingScenarios

\* the largest window d of a scenario, and the unit of the weights: every
\* ceil(n/2) and floor(n/2) with 2 <= n <= DMax divides WUnit
DMax == CHOOSE d \in {s.cfg.d : s \in Scenarios} : \A s \in Scenarios : s.cfg.d <= d
WUnit == Fact(CeilHalf(DMax)) * Fact(FloorHalf(DMax))

-----------------------------------------------------------------------------
(* Value.success_rate *)

\* faulty variant of success_rate: the active flag is not looked at
success_rate_IgnoresActive(h, a) ==
    IF Len(h) = 0 THEN Rat(0, 1)
    ELSE IF Len(h) < 4 THEN Rat(Sum(h), Len(h))
    ELSE Rat(Sum(LastK(h, 4)), 4)

\* faulty variant of success_rate: no test for an empty history, whose mean is
\* then below no threshold
success_rate_NoEmptyGuard(h, a) ==
    IF ~a THEN Rat(0, 1)
    ELSE IF Len(h) = 0 THEN Rat(1, 0)
    ELSE IF Len(h) < 4 THEN Rat(Sum(h), Len(h))
    ELSE Rat(Sum(LastK(h, 4)), 4)

\* Value.success_rate with the value's history h and active flag a
success_rate(h, a) ==
    IF Len(h) = 0 \/ ~a THEN Rat(0, 1)
    ELSE IF Len(h) < 4 THEN Rat(Sum(h), Len(h))
    ELSE Rat(Sum(LastK(h, 4)), 4)

-----------------------------------------------------------------------------
(* ZPDES.sampleValues and ZPDES.genActivity *)

\* faulty variant of candidates: the active flag is not looked at
candidates_AnyValue(g, p, act) == {v \in Values : A_S[v].group = g /\ A_S[v].param = p}

\* the candidates of one param: its active values (the weights only shape p_i)
candidates(g, p, act) == {v \in Values : A_S[v].group = g /\ A_S[v].param = p /\ act[v]}

\* faulty variant of sampleValues: the loop over the params returns after the first one
sampleValues_FirstParamOnly(g, act) ==
    {<<v>> : v \in candidates(g, params(g)[1], act)}

RECURSIVE H(_, _, _)
\* the lists H the loop over the params Hx of group g can build: H.append of one
\* candidate per param, in the order of the params
H(g, Hx, act) ==
    IF Hx = <<>> THEN {<<>>}
    ELSE LET firsts == H(g, SubSeq(Hx, 1, Len(Hx) - 1), act)
         IN  {Append(h, v) : h \in firsts, v \in candidates(g, Hx[Len(Hx)], act)}

\* the draws sampleValues can return for the params of group g: one candidate per
\* param; none when a param has no candidate (np.random.choice raises ValueError)
sampleValues(g, act) == H(g, params(g), act)

\* more hops than there are groups visits some group twice
MaxHops == Len(groups) + 1

RECURSIVE Walk(_, _, _)
\* the runs of genActivity's loop from group g: e is the draws made, ok says that
\* the loop ended at a value without next (not ok: sampleValues raised, a group
\* named by next does not exist, or the hops ran out)
Walk(g, act, hops) ==
    IF hops = 0 \/ ~(\E k \in 1..Len(groups) : groups[k] = g)
    THEN {[e |-> <<>>, ok |-> FALSE]}
    ELSE LET draws == sampleValues(g, act)
         IN  IF draws = {}
             THEN {[e |-> <<>>, ok |-> FALSE]}
             ELSE UNION { LET rest == IF n = None THEN {[e |-> <<>>, ok |-> TRUE]}
                                      ELSE Walk(n, act, hops - 1)
                          IN  {[e |-> <<h>> \o w.e, ok |-> w.ok] :
                                  h \in {x \in draws : A_S[x[Len(x)]].next = n}, w \in rest}
                        : n \in {A_S[h[Len(h)]].next : h \in draws} }

\* the runs of genActivity in a graph with the active flags act
genActivity(act) == Walk(groups[1], act, MaxHops)

RECURSIVE Flatten(_)
\* [value for group in e for value in group]
Flatten(e) == IF e = <<>> THEN <<>> ELSE Head(e) \o Flatten(Tail(e))

-----------------------------------------------------------------------------
(* ZPDES.computeReward *)

\* faulty variant of RewardOf: the older half minus the recent half
RewardOf_Swapped(h, d) ==
    LET d_ == IF Len(h) < d THEN Len(h) ELSE d
    IN  IF d_ > 1
        THEN Sum(SubSeq(h, Len(h) - d_ + 1, Len(h) - CeilHalf(d_))) * (WUnit \div FloorHalf(d_))
             - Sum(LastK(h, CeilHalf(d_))) * (WUnit \div CeilHalf(d_))
        ELSE 0

\* r_x for a value whose history, C appended, is h: with d_ = min(len, d) > 1 the
\* mean of the last ceil(d_/2) scores minus the mean of scores[-d_:-ceil(d_/2)],
\* in units of 1/WUnit; 0 otherwise
RewardOf(h, d) ==
    LET d_ == IF Len(h) < d THEN Len(h) ELSE d
    IN  IF d_ > 1
        THEN Sum(LastK(h, CeilHalf(d_))) * (WUnit \div CeilHalf(d_))
             - Sum(SubSeq(h, Len(h) - d_ + 1, Len(h) - CeilHalf(d_))) * (WUnit \div FloorHalf(d_))
        ELSE 0

RECURSIVE computeReward_BeforeAppend(_, _, _, _)
\* faulty variant of computeReward: r_x is computed before C is appended
computeReward_BeforeAppend(fl, C, sc, d) ==
    IF fl = <<>> THEN [scores |-> sc, r |-> <<>>]
    ELSE LET value == Head(fl)
             sc1 == [sc EXCEPT ![value] = Append(@, C)]
             rest == computeReward_BeforeAppend(Tail(fl), C, sc1, d)
         IN  [scores |-> rest.scores, r |-> <<RewardOf(sc[value], d)>> \o rest.r]

RECURSIVE computeReward_KeepsWindow(_, _, _, _)
\* faulty variant of computeReward: only the last d scores of a value are kept
computeReward_KeepsWindow(fl, C, sc, d) ==
    IF fl = <<>> THEN [scores |-> sc, r |-> <<>>]
    ELSE LET value == Head(fl)
             sc1 == [sc EXCEPT ![value] = LastK(Append(@, C), d)]
             rest == computeReward_KeepsWindow(Tail(fl), C, sc1, d)
         IN  [scores |-> rest.scores, r |-> <<RewardOf(sc1[value], d)>> \o rest.r]

RECURSIVE computeReward(_, _, _, _)
\* the loop over the values fl of the activity: C is appended to each value's
\* scores and its reward appended to r; gives the scores and r at the end
computeReward(fl, C, sc, d) ==
    IF fl = <<>> THEN [scores |-> sc, r |-> <<>>]
    ELSE LET value == Head(fl)
             sc1 == [sc EXCEPT ![value] = Append(@, C)]
             rest == computeReward(Tail(fl), C, sc1, d)
         IN  [scores |-> rest.scores, r |-> <<RewardOf(sc1[value], d)>> \o rest.r]

RECURSIVE UpdateWeights_SameReward(_, _, _, _, _)
\* faulty variant of UpdateWeights: the index i is not incremented, every value
\* gets the first reward
UpdateWeights_SameReward(fl, r, w, beta, eta) ==
    IF fl = <<>> THEN w
    ELSE UpdateWeights_SameReward(Tail(fl), r,
                                  [w EXCEPT ![Head(fl)] = beta * @ + eta * Head(r)], beta, eta)

RECURSIVE UpdateWeights(_, _, _, _, _)
\* "Update greedy experts": u_i.weight = beta * u_i.weight + eta * r[i], in order
UpdateWeights(fl, r, w, beta, eta) ==
    IF fl = <<>> THEN w
    ELSE UpdateWeights(Tail(fl), Tail(r),
                       [w EXCEPT ![Head(fl)] = beta * @ + eta * Head(r)], beta, eta)

-----------------------------------------------------------------------------
(* ZPDES.updateZPD and Value.activate *)

\* the sentinel weight of an inactive value in Value.activate
InactiveWeight == 1000

Min(S) == CHOOSE x \in S : \A y \in S : x <= y

\* the order of the loops "for group / for param / for value"
ScanOrder ==
    LET ofGroup(g) ==
            LET ps == params(g)
                F[k \in 0..Len(ps)] == IF k = 0 THEN <<>> ELSE F[k - 1] \o values(g, ps[k])
            IN  F[Len(ps)]
        G[k \in 0..Len(groups)] == IF k = 0 THEN <<>> ELSE G[k - 1] \o ofGroup(groups[k])
    IN  G[Len(groups)]

\* faulty variant of Expand: one active value at or above lambdaZPD is enough
Expand_Any(act, sc, lambdaZPD) ==
    \E value \in Values : act[value] /\ ~Less(success_rate(sc[value], act[value]), lambdaZPD)

\* faulty variant of Expand: a value that has no score yet is passed over
Expand_SkipsUnscored(act, sc, lambdaZPD) ==
    \A value \in Values :
        ~(act[value] /\ sc[value] # <<>>
            /\ Less(success_rate(sc[value], act[value]), lambdaZPD))

\* faulty variant of Expand: the active flag is not looked at, an inactive value
\* holds the expansion back
Expand_CountsInactive(act, sc, lambdaZPD) ==
    \A value \in Values : ~Less(success_rate(sc[value], act[value]), lambdaZPD)

\* expand: no active value has a success rate below lambdaZPD
Expand(act, sc, lambdaZPD) ==
    \A value \in Values : ~(act[value] /\ Less(success_rate(sc[value], act[value]), lambdaZPD))

\* faulty variant of ShouldActivate: the test is made against the next timestamp
ShouldActivate_OffByOne(value, stage) == stage + 1 = A_S[value].activation

\* the test made on each value after the timestamp has been incremented
ShouldActivate(value, stage) == stage = A_S[value].activation

\* the values of the param a value belongs to, as a set
ParamSet(value) ==
    {u \in Values : A_S[u].group = A_S[value].group /\ A_S[u].param = A_S[value].param}

\* the weight Value.activate gives: the minimum over the values of the param of
\* the weight if the value is active and the sentinel otherwise, taken after the
\* value's own flag has been set (act is the flags at that point)
ActivationWeight(value, act, w) ==
    Min({ IF act[u] THEN w[u] ELSE InactiveWeight * WUnit : u \in ParamSet(value) })

\* faulty variant of activate: the early return is taken for the inactive values
activate_Inverted(value, st) ==
    IF ~st.active[value] THEN st
    ELSE [st EXCEPT !.activated = @ \cup {value}]

\* Value.activate on the state st = [active, weight, activated, seen]; activated
\* and seen record the values it activated and, for each, the weights of the
\* values of its param that were active when it was called
activate(value, st) ==
    IF st.active[value] THEN st
    ELSE [active |-> [st.active EXCEPT ![value] = TRUE],
          weight |-> [st.weight EXCEPT ![value] =
                        ActivationWeight(value, [st.active EXCEPT ![value] = TRUE], st.weight)],
          activated |-> st.activated \cup {value},
          seen |-> [st.seen EXCEPT ![value] =
                      { st.weight[u] : u \in {x \in ParamSet(value) : st.active[x]} }]]

RECURSIVE ActivateValues(_, _, _)
\* "activate values": the loop over every value after the timestamp is incremented
ActivateValues(order, stage, st) ==
    IF order = <<>> THEN st
    ELSE ActivateValues(Tail(order), stage,
            IF ShouldActivate(Head(order), stage) THEN activate(Head(order), st) ELSE st)

\* "Deactivation rules": the value each rule names and the timestamp it needs
DeactivationRules ==
    << [value |-> values_dict("Flexibility Level", "Level", "level 1"), stage |-> 3],
       [value |-> values_dict("Flexibility Level", "Level", "level 2"), stage |-> 4],
       [value |-> values_dict("Quality Movement Level", "Level", "movement level 1"), stage |-> 3],
       [value |-> values_dict("Quality Movement 2", "Level", "level 1"), stage |-> 4],
       [value |-> values_dict("Quality Movement 2", "Level", "level 2"), stage |-> 5],
       [value |-> values_dict("Quality Movement 3", "Level", "level 1"), stage |-> 6],
       [value |-> values_dict("Quality Movement 3", "Level", "level 2"), stage |-> 7] >>

\* faulty variant of RuleFires: the timestamp is not looked at
RuleFires_NoStage(rule, stage, act, sc, lambdaA) ==
    Less(lambdaA, success_rate(sc[rule.value], act[rule.value]))

\* the condition of one rule
RuleFires(rule, stage, act, sc, lambdaA) ==
    Less(lambdaA, success_rate(sc[rule.value], act[rule.value])) /\ stage >= rule.stage

\* faulty variant of ApplyRule: the flag is recomputed on every update, so a value whose
\* rule does not fire is active once its activation stage has been reached
ApplyRule_Recomputed(rule, stage, act, sc, lambdaA) ==
    [act EXCEPT ![rule.value] =
        IF RuleFires(rule, stage, act, sc, lambdaA)
        THEN FALSE
        ELSE @ \/ A_S[rule.value].activation <= stage]

\* one rule: if it fires, the active flag of its value is cleared
ApplyRule(rule, stage, act, sc, lambdaA) ==
    IF RuleFires(rule, stage, act, sc, lambdaA)
    THEN [act EXCEPT ![rule.value] = FALSE]
    ELSE act

RECURSIVE Deactivate(_, _, _, _, _)
\* the rules in order
Deactivate(rules, stage, act, sc, lambdaA) ==
    IF rules = <<>> THEN act
    ELSE Deactivate(Tail(rules), stage, ApplyRule(Head(rules), stage, act, sc, lambdaA),
                    sc, lambdaA)

\* the end of updateZPD: the rules, run on the timestamp and on the flags and
\* weights st that the expansion left
DeactivationPass(expand, stage, st, sc, c) ==
    [zpd_timestamp |-> stage,
     active |-> Deactivate(DeactivationRules, stage, st.active, sc, c.lambdaA),
     weight |-> st.weight,
     expand |-> expand,
     activated |-> st.activated,
     seen |-> st.seen,
     mid |-> [active |-> st.active, weight |-> st.weight]]

\* faulty variant of ExpansionPass: the timestamp is incremented twice
ExpansionPass_Twice(expand, stage, st, sc, c) ==
    IF expand
    THEN DeactivationPass(expand, stage + 2, ActivateValues(ScanOrder, stage + 2, st), sc, c)
    ELSE DeactivationPass(expand, stage, st, sc, c)

\* "if expand": the timestamp is incremented and the values are activated
ExpansionPass(expand, stage, st, sc, c) ==
    IF expand
    THEN DeactivationPass(expand, stage + 1, ActivateValues(ScanOrder, stage + 1, st), sc, c)
    ELSE DeactivationPass(expand, stage, st, sc, c)

\* updateZPD on the timestamp, flags and weights, with the scores sc: gives the new
\* timestamp, flags and weights, and what the pass did (expand, the values it
\* activated, what each saw, and the flags and weights before the rules ran)
updateZPD(stage, act, w, sc, c) ==
    ExpansionPass(Expand(act, sc, c.lambdaZPD), stage,
                  [active |-> act, weight |-> w, activated |-> {},
                   seen |-> [v \in Values |-> {}]],
                  sc, c)

-----
(* The state machine *)

NoUpdate ==
    [e |-> <<>>, generated |-> <<>>, stale |-> FALSE, held |-> {}, C |-> 0, r |-> <<>>,
     pre |-> [zpd_timestamp |-> 1,
              active |-> [v \in Values |-> A_S[v].active],
              weight |-> [v \in Values |-> A_S[v].weight * WUnit],
              scores |-> [v \in Values |-> <<>>]],
     expand |-> FALSE, activated |-> {}, seen |-> [v \in Values |-> {}],
     mid |-> [active |-> [v \in Values |-> A_S[v].active],
              weight |-> [v \in Values |-> A_S[v].weight * WUnit]]]

\* ZPDES.__init__ for one scenario
InitWith(s) ==
    /\ zpd_timestamp = 1
    /\ active = [v \in Values |-> A_S[v].active]
    /\ weight = [v \in Values |-> A_S[v].weight * WUnit]
    /\ scores = [v \in Values |-> <<>>]
    /\ pending = {}
    /\ cfg = s.cfg
    /\ env = [scores |-> s.scores, updates |-> Len(s.scores)]
    /\ nUpdates = 0
    /\ retired = {}
    /\ last = NoUpdate

Init == \E s \in Scenarios : InitWith(s)

\* faulty variant of GenActivity: sampling scales the weights in place instead
\* of a copy of them
GenActivity_ScalesWeights ==
    /\ pending = {}
    /\ nUpdates < env.updates
    /\ \E w \in genActivity(active) :
          /\ w.ok
          /\ pending' = pending \cup {w.e}
    /\ weight' = [v \in Values |-> 10 * weight[v]]
    /\ UNCHANGED <<zpd_timestamp, active, scores, cfg, env, nUpdates, retired, last>>

\* e, code = genActivity(): one run of the loop that ends; the caller keeps e
GenActivity ==
    /\ pending = {}
    /\ nUpdates < env.updates
    /\ \E w \in genActivity(active) :
          /\ w.ok
          /\ pending' = pending \cup {w.e}
    /\ UNCHANGED <<zpd_timestamp, active, weight, scores, cfg, env, nUpdates, retired, last>>

\* update(e, C), after computeReward has given cr = [scores, r]
updateWith(e, cr) ==
    updateZPD(zpd_timestamp, active,
              UpdateWeights(Flatten(e), cr.r, weight, cfg.beta, cfg.eta),
              cr.scores, cfg)

\* update(e, C), called for the activity `generated` that the caller holds: the
\* caller then holds it no more.  last records the call: stale says that the
\* activity was already held when the update before this one was called, held
\* is what the caller still holds
update(generated, e, C) ==
    \E cr \in {computeReward(Flatten(e), C, scores, cfg.d)} :
       \E z \in {updateWith(e, cr)} :
          /\ scores' = cr.scores
          /\ weight' = z.weight
          /\ active' = z.active
          /\ zpd_timestamp' = z.zpd_timestamp
          /\ pending' = pending \ {generated}
          /\ retired' = retired \cup {v \in Values : z.mid.active[v] /\ ~z.active[v]}
          /\ last' = [e |-> e, generated |-> generated, stale |-> generated \in last.held,
                      held |-> pending \ {generated}, C |-> C, r |-> cr.r,
                      pre |-> [zpd_timestamp |-> zpd_timestamp, active |-> active,
                               weight |-> weight, scores |-> scores],
                      expand |-> z.expand, activated |-> z.activated,
                      seen |-> z.seen, mid |-> z.mid]
          /\ nUpdates' = nUpdates + 1
          /\ UNCHANGED <<cfg, env>>

\* update(e, C) for an activity e the caller holds and a score C
Update ==
    /\ nUpdates < env.updates
    /\ \E e \in pending, C \in env.scores[nUpdates + 1] : update(e, e, C)

Next == GenActivity \/ Update

Spec == Init /\ [][Next]_vars

-----------------------------------------------------------------------------
(* A caller that does not keep to genActivity -> update: it may call genActivity *)
(* again while it holds an activity, and may give update a list that is not    *)
(* the one genActivity returned.  update makes no test on e (278-288).         *)

\* the engines such a caller is run with
CallerScenarios ==
    { Caller(Coefficients(2, Rat(0, 1), Rat(0, 1), 1, 1), [n \in 1..MaxUpdates |-> {0, 1}]) }

InitCaller == \E s \in CallerScenarios : InitWith(s)

\* genActivity called while the caller still holds one activity; the caller does
\* so when it has two updates left to make
GenActivityAgain ==
    /\ Cardinality(pending) = 1
    /\ nUpdates + 2 = env.updates
    /\ \E w \in genActivity(active) :
          /\ w.ok
          /\ pending' = pending \cup {w.e}
    /\ UNCHANGED <<zpd_timestamp, active, weight, scores, cfg, env, nUpdates, retired, last>>

\* s without its i-th element
RemoveAt(s, i) == SubSeq(s, 1, i - 1) \o SubSeq(s, i + 1, Len(s))

\* the lists a caller makes of an activity e by losing the first value of its
\* first draw, or its last draw
Damaged(e) ==
    {[e EXCEPT ![1] = RemoveAt(e[1], 1)], SubSeq(e, 1, Len(e) - 1)}

\* update(e, C) with a list e that is not what genActivity returned; the caller
\* does so on its last update
UpdateMalformed ==
    /\ nUpdates + 1 = env.updates
    /\ \E generated \in pending, C \in env.scores[nUpdates + 1] :
          \E e \in Damaged(generated) : update(generated, e, C)

NextCaller == GenActivity \/ GenActivityAgain \/ Update \/ UpdateMalformed

SpecCaller == InitCaller /\ [][NextCaller]_vars

-----------------------------------------------------------------------------
(* A learner who always scores 1, for as many cycles as it takes.  Every history *)
(* is then a run of ones: its success rate is 1 and its reward 0 whatever its   *)
(* length, so this specification keeps the last Keep scores of a history only,  *)
(* which makes its state space finite; it keeps no record of the last update    *)
(* and stops once the stage is that of the last activation.                     *)

\* number of scores of a history that are kept
Keep == 1

\* the largest activation stage of the graph
LastStage == Min({n \in 1..Len(A_S) : \A v \in Values : A_S[v].activation <= n})

\* every score is 1 and 0 < lambdaZPD <= 1; lambdaA below 1 retires, lambdaA = 1
\* does not
LiveScenarios ==
    { Caller(c, <<{1}>>) :
        c \in { Coefficients(2, Rat(1, 2), Rat(1, 2), 1, 1),
                Coefficients(3, Rat(1, 1), Rat(1, 1), 1, 1) } }

InitLive == \E s \in LiveScenarios : InitWith(s)

\* e, code = genActivity(), once the last stage is not yet reached
GenActivityLive ==
    /\ pending = {}
    /\ zpd_timestamp < LastStage
    /\ \E w \in genActivity(active) : w.ok /\ pending' = {w.e}
    /\ UNCHANGED <<zpd_timestamp, active, weight, scores, cfg, env, nUpdates, retired, last>>

\* a draw that holds a value never scored before
GenActivityFresh ==
    /\ GenActivityLive
    /\ \E e \in pending' : \E i \in 1..Len(Flatten(e)) : scores[Flatten(e)[i]] = <<>>

\* update(e, 1) for the activity the caller holds
UpdateLive ==
    \E e \in pending, C \in env.scores[1] :
       \E cr \in {computeReward(Flatten(e), C, scores, cfg.d)} :
          \E z \in {updateWith(e, cr)} :
             /\ scores' = [v \in Values |-> LastK(cr.scores[v], Keep)]
             /\ weight' = z.weight
             /\ active' = z.active
             /\ zpd_timestamp' = z.zpd_timestamp
             /\ pending' = pending \ {e}
             /\ retired' = retired \cup {v \in Values : z.mid.active[v] /\ ~z.active[v]}
             /\ UNCHANGED <<cfg, env, nUpdates, last>>

NextLive == GenActivityLive \/ UpdateLive

\* The caller gives every activity it holds to update: UpdateLive is enabled
\* exactly when the caller holds an activity and leaves it holding none, so weak
\* fairness of it is that the caller holds none again and again.
\* Sampling is fair: every draw has a positive probability, so a value that can
\* be drawn again and again is drawn; a scored value stays scored, so fairness
\* for each value implies that draws of never-scored values do happen as long
\* as they stay possible.
Fairness ==
    /\ []<>(pending = {})
    /\ SF_vars(GenActivityFresh)

SpecLive == InitLive /\ [][NextLive]_vars /\ Fairness

-----------------------------------------------------------------------------
(* Vocabulary of the properties, stated without the operators above *)

\* the window of the success rate: the last four scores, or all of them
Window4(h) == IF Len(h) <= 4 THEN h ELSE SubSeq(h, Len(h) - 3, Len(h))

\* the mean of the window is >= lam (an empty history counts as 0)
RateAtLeast(h, lam) ==
    IF h = <<>> THEN lam.num <= 0
    ELSE Sum(Window4(h)) * lam.den >= lam.num * Len(Window4(h))

\* the mean of the window is > lam (an empty history counts as 0)
RateAbove(h, lam) ==
    IF h = <<>> THEN lam.num < 0
    ELSE Sum(Window4(h)) * lam.den > lam.num * Len(Window4(h))

Updated == nUpdates > 0
Advanced == Updated /\ zpd_timestamp = last.pre.zpd_timestamp + 1
Drawn == {Flatten(last.e)[i] : i \in 1..Len(Flatten(last.e))}
RuleValues == {DeactivationRules[k].value : k \in 1..Len(DeactivationRules)}
RuleStage(v) == (CHOOSE k \in 1..Len(DeactivationRules) : DeactivationRules[k].value = v)
AllScoresOne == \A v \in Values : \A i \in 1..Len(scores[v]) : scores[v][i] = 1
Quality == values_dict("Type", "Type", "quality")
MovementLevel1 == values_dict("Quality Movement Level", "Level", "movement level 1")

-----------------------------------------------------------------------------
(* C1 *)

\* C1: an update advances the stage by 1 exactly when, with C appended to the drawn
\* values' histories, every value that is active has a success rate >= lambdaZPD;
\* otherwise the stage keeps its value (one active value below the threshold blocks it).
C1_AdvanceIffAllActiveQualify ==
    Updated =>
        /\ zpd_timestamp \in {last.pre.zpd_timestamp, last.pre.zpd_timestamp + 1}
        /\ (zpd_timestamp = last.pre.zpd_timestamp + 1)
             <=> \A v \in Values : last.pre.active[v] => RateAtLeast(scores[v], cfg.lambdaZPD)

\* an update with a positive lambdaZPD advanced the stage, after earlier updates
\* that some unscored value had blocked
C1_Witness ==
    /\ Advanced
    /\ cfg.lambdaZPD.num > 0
    /\ nUpdates >= 2

\* C1, the blocking case: exactly one active value is below lambdaZPD and the stage
\* did not advance although every other active value qualifies
C1_BlockedByOne ==
    /\ Updated /\ ~Advanced
    /\ Cardinality({v \in Values : last.pre.active[v]
                                     /\ ~RateAtLeast(scores[v], cfg.lambdaZPD)}) = 1

-----------------------------------------------------------------------------
(* C2 *)

\* C2: a value that a deactivation rule has cleared is never active again
C2_RetirementIrreversible == \A v \in retired : ~active[v]

\* the stage advanced in an update made after a value had been retired
C2_Witness ==
    /\ Advanced
    /\ \E v \in retired : ~last.pre.active[v]

-----------------------------------------------------------------------------
(* C3 *)

\* C3: a value activated by an update gets the minimum weight among the values of
\* its param that were active immediately before its activation
C3_SeedIsMinOfActiveBefore ==
    Updated =>
        \A v \in last.activated : last.seen[v] # {} => weight[v] = Min(last.seen[v])

-----------------------------------------------------------------------------
(* C4 *)

\* the group a draw belongs to
DrawGroup(h) == A_S[h[1]].group

\* a draw holds one value per param of its group, in the order of the params
WellFormedDraw(h) ==
    /\ Len(h) = Len(params(DrawGroup(h)))
    /\ \A i \in 1..Len(h) :
          A_S[h[i]].group = DrawGroup(h) /\ A_S[h[i]].param = params(DrawGroup(h))[i]

\* an activity starts at the root, follows the successor of each draw's last value
\* and ends at the first draw whose last value has no successor
WellFormedActivity(e) ==
    /\ Len(e) >= 1 /\ Len(e) <= 4
    /\ \A k \in 1..Len(e) : Len(e[k]) >= 1 /\ WellFormedDraw(e[k])
    /\ DrawGroup(e[1]) = "Type"
    /\ \A k \in 1..Len(e) - 1 : A_S[e[k][Len(e[k])]].next = DrawGroup(e[k + 1])
    /\ A_S[e[Len(e)][Len(e[Len(e)])]].next = None
    /\ \A j, k \in 1..Len(e) : j # k => DrawGroup(e[j]) # DrawGroup(e[k])

\* C4: in every state where the caller may call it (it holds no activity),
\* genActivity ends, and every activity it returns, or has returned to the caller,
\* is well formed, with at most 4 groups and none visited twice
C4_GenActivityWellFormed ==
    /\ pending = {} =>
          LET runs == genActivity(active)
          IN  /\ runs # {}
              /\ \A w \in runs : w.ok /\ WellFormedActivity(w.e)
    /\ \A e \in pending : WellFormedActivity(e)

\* the caller holds an activity through "Quality Movement 2", a group of two params
C4_Witness ==
    \E e \in pending :
        /\ Len(e) = 3
        /\ Len(e[3]) = 2
        /\ DrawGroup(e[3]) = "Quality Movement 2"

-----------------------------------------------------------------------------
(* C5 *)

\* the values genActivity can return in this state
Drawable ==
    UNION { {Flatten(w.e)[i] : i \in 1..Len(Flatten(w.e))} : w \in genActivity(active) }

\* C5: in every state where the caller may call genActivity, every value it can
\* return is active and every active value of a group it can visit can be
\* returned; and the values of the activity the caller holds, which it got in a
\* state with the same flags, are active
C5_SamplesExactlyActive ==
    /\ pending = {} =>
          LET D == Drawable
              visited == {A_S[u].group : u \in D}
          IN  /\ \A v \in D : active[v]
              /\ \A v \in Values : (active[v] /\ A_S[v].group \in visited) => v \in D
    /\ \A e \in pending : \A i \in 1..Len(Flatten(e)) : active[Flatten(e)[i]]

\* the caller holds an activity with a value activated after construction, drawn
\* from a param that has another active value and an inactive one
C5_Witness ==
    \E e \in pending : \E i \in 1..Len(Flatten(e)) :
        LET v == Flatten(e)[i]
        IN  /\ A_S[v].activation > 1
            /\ \E u \in ParamSet(v) : u # v /\ active[u]
            /\ \E u \in ParamSet(v) : ~active[u]

-----------------------------------------------------------------------------
(* C6 *)

\* C6: the stage is 1 at first; an update leaves it or adds exactly 1; no other step
\* changes it
C6_StageMonotone ==
    /\ zpd_timestamp = 1
    /\ [][ \/ nUpdates' = nUpdates + 1 /\ zpd_timestamp' \in {zpd_timestamp, zpd_timestamp + 1}
           \/ nUpdates' = nUpdates /\ zpd_timestamp' = zpd_timestamp ]_vars

\* the stage has advanced, and the last update left it as it was
C6_Witness ==
    /\ Updated /\ ~Advanced
    /\ zpd_timestamp >= 2

-----------------------------------------------------------------------------
(* C7 *)

\* C7: in every update, a value with a rule that is active after the activation pass
\* ends the update inactive exactly when the stage is then at least the rule's and
\* the value's success rate is above lambdaA; the rules clear no other value and no
\* rule sets a flag
C7_RetiredIffRuleHolds ==
    Updated =>
        \A v \in Values :
            IF v \in RuleValues /\ last.mid.active[v]
            THEN ~active[v] <=> /\ zpd_timestamp >= DeactivationRules[RuleStage(v)].stage
                                /\ RateAbove(scores[v], cfg.lambdaA)
            ELSE active[v] = last.mid.active[v]

\* a rule cleared a value in an update that did not advance the stage
C7_Witness ==
    /\ Updated /\ ~Advanced
    /\ \E v \in RuleValues : last.mid.active[v] /\ ~active[v]

-----------------------------------------------------------------------------
(* C8 *)

\* C8: a flag goes from inactive to active only in an update that increments the
\* stage to the value's activation stage, and only for a value that was not active
\* before; it goes from active to inactive only for a value with a rule, in an
\* update, at a stage the rule allows; and a value whose activation stage is above
\* the stage is inactive
C8_Lifecycle ==
    /\ [](\A v \in Values : A_S[v].activation > zpd_timestamp => ~active[v])
    /\ [][ \A v \in Values :
             /\ (~active[v] /\ active'[v]) =>
                   /\ nUpdates' = nUpdates + 1
                   /\ zpd_timestamp' = zpd_timestamp + 1
                   /\ zpd_timestamp' = A_S[v].activation
                   /\ ~A_S[v].active
                   /\ v \notin retired
             /\ (active[v] /\ ~active'[v]) =>
                   /\ nUpdates' = nUpdates + 1
                   /\ v \in RuleValues
                   /\ zpd_timestamp' >= DeactivationRules[RuleStage(v)].stage ]_vars

\* an update activated values while another value was already retired
C8_Witness ==
    /\ Updated
    /\ last.activated # {}
    /\ \E v \in retired : ~last.pre.active[v]

-----------------------------------------------------------------------------
(* C9 *)

\* C9 as stated: after 4 cycles scored 1 the stage is 1 if lambdaZPD > 1, and
\* otherwise it is 2 with exactly one value, of activation stage 2, newly active
C9_Original ==
    (nUpdates = 4 /\ pending = {} /\ AllScoresOne) =>
        IF Less(Rat(1, 1), cfg.lambdaZPD)
        THEN zpd_timestamp = 1
        ELSE /\ zpd_timestamp = 2
             /\ Cardinality({v \in Values : active[v] /\ ~A_S[v].active}) = 1
             /\ \A v \in Values : (active[v] /\ ~A_S[v].active) => A_S[v].activation = 2

\* C9 amended: after 4 cycles scored 1 the stage is still 1 whenever lambdaZPD > 0
\* (four activities leave an active value unscored) and is 5 when lambdaZPD <= 0;
\* the update that takes the stage from 1 to 2 activates exactly the two values of
\* activation stage 2, "quality" and "movement level 1"
C9_FourCycles ==
    /\ (nUpdates = 4 /\ pending = {} /\ AllScoresOne) =>
          /\ cfg.lambdaZPD.num > 0 => zpd_timestamp = 1
          /\ cfg.lambdaZPD.num <= 0 => zpd_timestamp = 5
    /\ (Advanced /\ zpd_timestamp = 2) =>
          /\ last.activated = {Quality, MovementLevel1}
          /\ \A v \in Values : A_S[v].activation = 2 <=> v \in last.activated
          /\ \A v \in last.activated : ~last.pre.active[v] /\ last.mid.active[v]

\* with 0 < lambdaZPD <= 1 and every score 1, a later cycle took the stage to 2
C9_Witness ==
    /\ Advanced /\ zpd_timestamp = 2
    /\ AllScoresOne
    /\ nUpdates > 4
    /\ cfg.lambdaZPD.num > 0 /\ ~Less(Rat(1, 1), cfg.lambdaZPD)

-----------------------------------------------------------------------------
(* C10 *)

NonDecreasing(w) == \A i \in 1..Len(w) - 1 : w[i] <= w[i + 1]
NonIncreasing(w) == \A i \in 1..Len(w) - 1 : w[i] >= w[i + 1]
Constant(w) == \A i \in 1..Len(w) - 1 : w[i] = w[i + 1]

\* the last n = min(len, d) scores of a value
RewardWindow(v) ==
    IF Len(scores[v]) <= cfg.d THEN scores[v]
    ELSE SubSeq(scores[v], Len(scores[v]) - cfg.d + 1, Len(scores[v]))

\* C10: for each value of the updated activity whose last n = min(len, d) >= 2
\* scores, the reported one included, rise (never fall and are not all equal) the
\* reward is positive; if they fall it is negative; if they are all equal it is 0
C10_RewardSign ==
    Updated =>
        \A i \in 1..Len(Flatten(last.e)) :
            LET w == RewardWindow(Flatten(last.e)[i])
            IN  Len(w) >= 2 =>
                  /\ (NonDecreasing(w) /\ ~Constant(w)) => last.r[i] > 0
                  /\ (NonIncreasing(w) /\ ~Constant(w)) => last.r[i] < 0
                  /\ Constant(w) => last.r[i] = 0

\* a value drawn three times with strictly rising scores and a window of 3
C10_Witness ==
    /\ Updated
    /\ \E i \in 1..Len(Flatten(last.e)) :
          LET w == RewardWindow(Flatten(last.e)[i])
          IN  /\ Len(w) = 3
              /\ w[1] < w[2] /\ w[2] < w[3]
              /\ last.r[i] > 0

-----------------------------------------------------------------------------
(* C11 *)

\* the last update was given a list that is not the activity genActivity returned
Malformed == Updated /\ last.e # last.generated

\* C11: an update given a list that does not match what genActivity returned
\* fails: it applies no score, no weight and no stage or flag update
C11_MalformedUpdateRejected ==
    Malformed =>
        /\ scores = last.pre.scores
        /\ weight = last.pre.weight
        /\ zpd_timestamp = last.pre.zpd_timestamp
        /\ active = last.pre.active

-----------------------------------------------------------------------------
(* C12 *)

\* a = b for rationals
RatEq(a, b) == a.num * b.den = b.num * a.den

\* the mean of all the scores of h if it has fewer than 4, of its last 4
\* otherwise, and 0 if it has none
MeanOfWindow(h) == IF h = <<>> THEN Rat(0, 1) ELSE Rat(Sum(Window4(h)), Len(Window4(h)))

\* C12 as stated: the success rate of every value, active or not, is the mean of
\* its window
C12_Original ==
    \A v \in Values : RatEq(success_rate(scores[v], active[v]), MeanOfWindow(scores[v]))

\* C12 amended: the success rate of an active value is the mean of its window;
\* the success rate of an inactive value (not yet activated, or retired) is 0
\* whatever its history
C12_SuccessRate ==
    \A v \in Values :
        RatEq(success_rate(scores[v], active[v]),
              IF active[v] THEN MeanOfWindow(scores[v]) ELSE Rat(0, 1))

\* an active value has more than 4 scores whose last 4 have another mean than the
\* whole history, and a retired value has a history with a positive mean
C12_Witness ==
    /\ \E v \in Values :
          /\ active[v] /\ Len(scores[v]) > 4
          /\ Sum(Window4(scores[v])) * Len(scores[v]) # Sum(scores[v]) * 4
    /\ \E v \in retired : Sum(scores[v]) > 0

-----------------------------------------------------------------------------
(* C13 *)

\* the values that were active when the last update made its advancement test and
\* had no score then
UnscoredAtTest == {v \in Values : last.pre.active[v] /\ scores[v] = <<>>}

\* C13 as stated: the stage never advances while an active value has no score
C13_Original == Advanced => UnscoredAtTest = {}

\* C13 amended: with lambdaZPD > 0 the stage never advances while an active value
\* has no score; with lambdaZPD <= 0 (and scores that are not negative) every
\* update advances, whether or not an active value has no score
C13_UnscoredBlocks ==
    /\ (Advanced /\ cfg.lambdaZPD.num > 0) => UnscoredAtTest = {}
    /\ (Updated /\ cfg.lambdaZPD.num <= 0) => Advanced

\* with lambdaZPD > 0 the stage went from 2 to 3: the values activated at stage 2
\* had to be scored first
C13_Witness ==
    /\ Advanced /\ zpd_timestamp = 3
    /\ cfg.lambdaZPD.num > 0
    /\ \A v \in Values : A_S[v].activation = 2 => scores[v] # <<>>

\* with lambdaZPD <= 0 the stage advanced while active values had no score
C13_AdvancedUnscored ==
    /\ Advanced /\ cfg.lambdaZPD.num <= 0
    /\ UnscoredAtTest # {}

-----------------------------------------------------------------------------
(* C14 *)

\* the groups that the active values of the last param of the groups of S lead to
RoutedFrom(S) ==
    {A_S[v].next : v \in {u \in Values : /\ A_S[u].group \in S
                                          /\ A_S[u].param = params(A_S[u].group)[Len(params(A_S[u].group))]
                                          /\ active[u]
                                          /\ A_S[u].next # None}}

RECURSIVE ReachedWithin(_, _)
\* the groups reached from those of S in at most n hops
ReachedWithin(S, n) == IF n = 0 THEN S ELSE ReachedWithin(S \cup RoutedFrom(S), n - 1)

\* the groups genActivity can visit in this state
ReachableGroups == ReachedWithin({groups[1]}, Len(groups))

\* the values a rule cleared in the last update
JustRetired == {v \in Values : last.mid.active[v] /\ ~active[v]}

\* C14: every param of every group that can be reached from the root through
\* active routing values has an active value, and a value a rule has just cleared
\* leaves an active value in its param
C14_EveryReachableParamHasActive ==
    /\ \A g \in ReachableGroups : \A i \in 1..Len(params(g)) :
          \E v \in Values : A_S[v].group = g /\ A_S[v].param = params(g)[i] /\ active[v]
    /\ Updated => \A v \in JustRetired : \E u \in ParamSet(v) : active[u]

\* a rule cleared a value in the update that activated another value of its param,
\* and a group with two params can be reached
C14_Witness ==
    /\ Updated
    /\ \E v \in JustRetired : \E u \in ParamSet(v) : u \in last.activated
    /\ "Quality Movement 2" \in ReachableGroups

\* a rule cleared a value that had no score, in the update that activated another
\* value of its param
C14_RetiredUnscored ==
    /\ Updated
    /\ \E v \in JustRetired : scores[v] = <<>> /\ \E u \in ParamSet(v) : u \in last.activated

-----------------------------------------------------------------------------
(* C15 *)

\* the values given to the last update, in flattened order
Given == Flatten(last.e)

\* n = min(len(history), d) for the i-th value of the last update
WindowSize(i) ==
    IF Len(scores[Given[i]]) < cfg.d THEN Len(scores[Given[i]]) ELSE cfg.d

\* C15: the rewards of an update are one per value, in flattened order; the i-th is
\* computed from the history of the i-th value alone, which ends with C: it is 0
\* if n <= 1 and otherwise the mean of the last ceil(n/2) scores minus the mean of
\* the floor(n/2) scores before them (weights and rewards are in units of 1/WUnit)
C15_RewardFormula ==
    Updated =>
        /\ Len(last.r) = Len(Given)
        /\ \A i \in 1..Len(Given) :
              LET h == scores[Given[i]]
                  n == WindowSize(i)
                  lo == n \div 2
                  hi == n - lo
                  recent == Sum(SubSeq(h, Len(h) - hi + 1, Len(h)))
                  older == Sum(SubSeq(h, Len(h) - n + 1, Len(h) - hi))
              IN  /\ h[Len(h)] = last.C
                  /\ n <= 1 => last.r[i] = 0
                  /\ n > 1 => last.r[i] * hi * lo = WUnit * (recent * lo - older * hi)

\* two values of one update, with windows of 3 and of 2 scores, have rewards that
\* are not 0 and differ
C15_Witness ==
    /\ Updated
    /\ \E i, j \in 1..Len(Given) :
          /\ WindowSize(i) = 3 /\ WindowSize(j) = 2
          /\ last.r[i] # last.r[j]
          /\ last.r[i] # 0 /\ last.r[j] # 0

-----------------------------------------------------------------------------
(* C16 *)

\* C16: an update appends C once to the history of every value of its activity and
\* leaves every other history as it was; no other step changes a history
C16_HistoryGrowth ==
    [][ \A v \in Values :
          IF nUpdates' = nUpdates + 1
             /\ \E i \in 1..Len(Flatten(last'.e)) : Flatten(last'.e)[i] = v
          THEN scores'[v] = Append(scores[v], last'.C)
          ELSE scores'[v] = scores[v] ]_vars

\* an update that activated a value and cleared another one appended a score to a
\* history that had scores, and left alone the history of a value it was not given
C16_Witness ==
    /\ Updated
    /\ last.activated # {} /\ JustRetired # {}
    /\ \E v \in Drawn : Len(scores[v]) >= 2
    /\ \E v \in Values \ Drawn : scores[v] # <<>> /\ scores[v] = last.pre.scores[v]

-----------------------------------------------------------------------------
(* C17 *)

\* the place of value v in the activity given to the last update
PlaceOf(v) == CHOOSE i \in 1..Len(Given) : Given[i] = v

\* C17: after an update the weight of each value of its activity is beta times its
\* weight before plus eta times its reward; the weight of any other value is as
\* before, unless the update activated the value
C17_WeightUpdate ==
    Updated =>
        \A v \in Values :
            IF v \in Drawn
            THEN weight[v] = cfg.beta * last.pre.weight[v] + cfg.eta * last.r[PlaceOf(v)]
            ELSE v \notin last.activated => weight[v] = last.pre.weight[v]

\* with beta = 2 a value that had a weight got a reward, and a value that the
\* update was not given kept the weight it had
C17_Witness ==
    /\ Updated
    /\ cfg.beta = 2
    /\ \E v \in Drawn : last.pre.weight[v] # 0 /\ last.r[PlaceOf(v)] # 0
    /\ \E v \in Values \ Drawn : weight[v] # 0

-----------------------------------------------------------------------------
(* C18 *)

\* C18: a step that is not an update (a call of genActivity) leaves the stage, the
\* flags, the weights and the histories as they are; so when the caller holds two
\* activities, generated with no update in between, the values of both are active
C18_GenActivityReadOnly ==
    /\ [](Cardinality(pending) = 2 =>
            \A e \in pending : \A i \in 1..Len(Flatten(e)) : active[Flatten(e)[i]])
    /\ [][ nUpdates' = nUpdates =>
             UNCHANGED <<zpd_timestamp, active, weight, scores>> ]_vars

\* the caller holds two activities, generated one after the other after an update
\* had activated values, and one of them holds such a value
C18_Witness ==
    /\ Cardinality(pending) = 2
    /\ Updated
    /\ \E e \in pending : \E i \in 1..Len(Flatten(e)) : ~A_S[Flatten(e)[i]].active

-----------------------------------------------------------------------------
(* C19 *)

\* the last update was called as genActivity -> update asks: with the activity
\* genActivity returned, and no other update since that call of genActivity
Alternating == Updated /\ ~Malformed /\ ~last.stale

\* C19: every value given to an alternating update is active when the update
\* starts; such an update changes neither the history of a value that was inactive
\* then nor, unless it activates the value, its weight; and a value that has
\* never been active has no score
C19_InactiveUntouched ==
    /\ Alternating =>
          /\ \A v \in Drawn : last.pre.active[v]
          /\ \A v \in Values : ~last.pre.active[v] =>
                /\ scores[v] = last.pre.scores[v]
                /\ v \notin last.activated => weight[v] = last.pre.weight[v]
    /\ \A v \in Values : (~A_S[v].active /\ ~active[v] /\ v \notin retired) => scores[v] = <<>>

\* of two activities generated before either was given to update, the second was
\* given to update after the first update had retired one of its values: the value
\* got a score and another weight
C19_Witness ==
    /\ Updated /\ last.stale /\ ~Malformed
    /\ \E v \in Drawn :
          /\ A_S[v].active /\ ~last.pre.active[v]
          /\ scores[v] = Append(last.pre.scores[v], last.C)
          /\ weight[v] # last.pre.weight[v]

-----------------------------------------------------------------------------
(* C20 *)

\* what an update reads of a history of ones, its success rate and its reward
\* once the next 1 is appended, is the same for its last Keep scores
KeepIsExact ==
    AllScoresOne =>
        \A v \in Values :
            \E h \in {scores[v]} : \E k \in {LastK(h, Keep)} :
                /\ RatEq(success_rate(h, active[v]), success_rate(k, active[v]))
                /\ RatEq(success_rate(Append(h, 1), TRUE), success_rate(Append(k, 1), TRUE))
                /\ RewardOf(Append(h, 1), cfg.d) = RewardOf(Append(k, 1), cfg.d)

\* every value has been active at some point: it is active or a rule cleared it
AllActivated == \A v \in Values : active[v] \/ v \in retired

\* C20: with every score 1, 0 < lambdaZPD <= 1 and fair sampling, every active
\* value is in a group genActivity can visit, and the stage eventually is that of
\* the last activation, every value having been activated
C20_CurriculumProgress ==
    /\ [](\A v \in Values : active[v] => A_S[v].group \in ReachableGroups)
    /\ <>(zpd_timestamp = LastStage /\ AllActivated)

\* the last stage is reached, with values retired on the way
C20_Witness ==
    /\ zpd_timestamp = LastStage
    /\ AllActivated
    /\ retired # {}

====
